---------------------------- MODULE Spec2Model ----------------------------
(***************************************************************************)
(* The tree chunker of src/cmd/ethereum/repl.go (package bzz):             *)
(* TreeChunker.Split / TreeChunker.split, which disassemble a byte         *)
(* sequence into a tree of hash-addressed chunks, and TreeChunker.Join /   *)
(* LazyChunkReader.ReadAt / LazyChunkReader.join, which reassemble a range *)
(* of it from a chunk store.  Goroutines are processes, unbuffered         *)
(* channels are rendezvous actions, WaitGroups are counters.               *)
(***************************************************************************)
EXTENDS Integers, Sequences, FiniteSets, TLC

(***************************************************************************)
(* Bounds and configuration.                                               *)
(***************************************************************************)

\* Longest input byte sequence that is split.
MaxLen == 5

\* Values a data byte takes.
Byte == {0, 1}

\* TreeChunker.hashSize: the digest length in bytes (scaled from 32).
HashSize == 1

\* TreeChunker.Branches: the fan-out (scaled from defaultBranches = 128).
Branches == 2

\* TreeChunker.chunkSize, as Init computes it.
chunkSize == HashSize * Branches

(***************************************************************************)
(* Bytes.  Every byte is a pair <<v, p>>: an ordinary byte has value v and *)
(* p = <<>>; byte j of the digest of payload p is <<j, p>>, so that two    *)
(* digests are equal exactly when the hashed payloads are (an injective    *)
(* hash function).                                                         *)
(***************************************************************************)

B(v) == <<v, <<>>>>

\* make([]byte, n): n zero bytes.
Zeros(n) == [i \in 1..n |-> B(0)]

\* common.Hash{}: the zero key.
ZeroHash == Zeros(HashSize)

\* The bytes of a data slice.
Bytes(s) == [i \in 1..Len(s) |-> B(s[i])]

\* b[lo:hi] of Go, on a 1-based sequence.
Slice(s, lo, hi) == SubSeq(s, lo + 1, hi)

RECURSIVE LEBytes(_, _)
LEBytes(n, k) == IF k = 0 THEN <<>> ELSE <<B(n % 256)>> \o LEBytes(n \div 256, k - 1)

\* binary.LittleEndian.PutUint64(chunk[0:8], uint64(size))
PutUint64(n) == LEBytes(n, 8)

RECURSIVE LEValue(_)
LEValue(bs) == IF bs = <<>> THEN 0 ELSE bs[1][1] + 256 * LEValue(Tail(bs))

\* binary.LittleEndian.Uint64(SData[0:8])
Uint64(bs) == LEValue(Slice(bs, 0, 8))

\* TreeChunker.Hash
Hash(input) == [j \in 1..HashSize |-> <<j, input>>]

\* Mutant: the copy goes the other way, and dst keeps what it held.
copyReversed(dst, src) == dst

\* copy(dst, src) on two slices of equal length: dst afterwards.
copy(dst, src) == src

(***************************************************************************)
(* The depth computations.                                                 *)
(***************************************************************************)

\* Mutant: the loop goes on while treeSize <= size.
RECURSIVE RootDepthInclusive(_, _, _)
RootDepthInclusive(depth, treeSize, size) ==
    IF treeSize <= size THEN RootDepthInclusive(depth + 1, treeSize * Branches, size)
    ELSE <<depth, treeSize>>

\* for ; treeSize < size; treeSize *= Branches { depth++ }
RECURSIVE RootDepth(_, _, _)
RootDepth(depth, treeSize, size) ==
    IF treeSize < size THEN RootDepth(depth + 1, treeSize * Branches, size)
    ELSE <<depth, treeSize>>

\* for depth > 0 && size < treeSize { treeSize /= Branches; depth-- }
RECURSIVE Descend(_, _, _)
Descend(depth, treeSize, size) ==
    IF depth > 0 /\ size < treeSize THEN Descend(depth - 1, treeSize \div Branches, size)
    ELSE <<depth, treeSize>>

\* Mutant: the short last child is dropped.
BranchCntFloor(size, treeSize) == size \div treeSize

\* Mutant: a child is added after the last whole one, also when nothing is left.
BranchCntPlus(size, treeSize) == size \div treeSize + 1

\* branchCnt := (size + treeSize - 1) / treeSize
BranchCnt(size, treeSize) == (size + treeSize - 1) \div treeSize

\* Mutant: every child is given all that is left of the section.
SecSizeRest(size, pos, treeSize) == size - pos

\* secSize of the child at offset pos: the last child can be shorter.
SecSize(size, pos, treeSize) == IF size - pos < treeSize THEN size - pos ELSE treeSize


(***************************************************************************)
(* State.                                                                  *)
(***************************************************************************)

VARIABLES
    data,       \* the byte sequence handed to Split (the SectionReader's content)
    hasSwg,     \* whether Split was given a persistence barrier (swg != nil)
    swg,        \* the persistence barrier's counter
    call,       \* "idle" before Split is called, "split" once it has returned errC
    task,       \* the split goroutines, by path in the tree (<<>> is the root)
    rootKey,    \* the caller's root-hash slot (key *common.Hash)
    wg,         \* Split's WaitGroup
    rerrC,      \* the internal error channel: "open" or "closed"
    closer,     \* the goroutine of lines 332-337: "wait" or "done"
    selector,   \* the goroutine of lines 340-350: "select", "send", "close", "done"
    selErr,     \* the error the selector is sending
    timeout,    \* time.After(SplitTimeout): "pending", "ready" (fired) or "taken"
    errC,       \* the error channel: values delivered to the caller, times closed
    storeOn,    \* whether the store still receives from chunkC
    sent,       \* the chunks the store received from chunkC
    readErrs,   \* the leaves whose data.ReadAt failed
    initialised,\* whether TreeChunker.Init has run on the chunker
    chunkC,     \* the chunk channel: "open" or "closed" (by the store)
    signalled,  \* the chunks the store has signalled as stored (chunk.wg.Done())
    chunker,    \* the TreeChunker's fields
    initHist,   \* the fields as constructed and as the first Init left them, and the
                \* number of Init calls
    depthLoop   \* the depth loop of Split's root goroutine (lines 312-320)

\* The store's side of the chunk channel and the chunker's configuration.
envVars == <<initialised, chunkC, signalled, chunker, initHist, depthLoop>>

splitVars == <<data, hasSwg, swg, call, task, rootKey, wg, rerrC, closer, selector,
               selErr, timeout, errC, storeOn, sent, readErrs, envVars>>

\* The state of the ReadAt calls on one reader is kept per call.
VARIABLES
    rd,         \* the ReadAt calls: position, arguments, root chunk and result
    buf,        \* each call's buffer b
    rsize,      \* LazyChunkReader.size
    jtask,      \* each call's join goroutines, by path in the tree (<<>> is the root)
    rwg,        \* each call's WaitGroup
    readErrC,   \* the channels made for LazyChunkReader.errC: times closed
    selfErrC,   \* the channel LazyChunkReader.errC holds
    rcloser,    \* each call's goroutine of lines 509-512: "none", "wait" or "done"
    rpanic      \* a goroutine of the reader panicked

readVars == <<rd, buf, rsize, jtask, rwg, readErrC, selfErrC, rcloser, rpanic>>

\* ReadAt calls made on one reader.
MaxCalls == 2
Calls == 1..MaxCalls

\* Data source failures injected per run.
MaxReadErrors == 1

\* The byte sequences of length n.
SeqsOfLen(n) == [1..n -> Byte]

\* The inputs of Split.
DataSet == UNION {SeqsOfLen(n) : n \in 0..MaxLen}

NoErr == "nil"
SplitTimeOut == "split time out"

(***************************************************************************)
(* TreeChunker.Split and TreeChunker.split.                                *)
(***************************************************************************)

\* A split goroutine about to run split(depth, treeSize, key, data[pos:pos+size], ...).
NewTask(depth, treeSize, pos, size) ==
    [pc |-> "start", depth |-> depth, treeSize |-> treeSize, pos |-> pos, size |-> size,
     leaf |-> FALSE, chunk |-> <<>>, hash |-> ZeroHash, keys |-> <<>>, childrenWg |-> 0]

\* The goroutine of lines 310-329: the depth of the tree, then the root split.
rootTask(size) ==
    LET dt == RootDepth(0, chunkSize, size)
    IN  NewTask(dt[1], dt[2] \div Branches, 0, size)

\* Mutant: every section is read from the start of the data.
SourceReadFromStart(d, pos, size, ok) ==
    IF ok THEN Bytes(Slice(d, 0, size)) ELSE Zeros(size)

\* data.ReadAt(chunkData[8:], 0) on the section [pos, pos+size): the bytes read when
\* the source delivers, a zeroed buffer when it fails.
SourceRead(d, pos, size, ok) ==
    IF ok THEN Bytes(Slice(d, pos, pos + size)) ELSE Zeros(size)

Parent(p) == SubSeq(p, 1, Len(p) - 1)
ChildIx(p) == p[Len(p)]

\* The subTreeKey the i-th child is given (line 405-406): a fresh Hash holding a
\* copy of the chunk's i-th key slot.
SubTreeKey(chunk, i) == copy(ZeroHash, Slice(chunk, 8 + i * HashSize, 8 + (i + 1) * HashSize))

(***************************************************************************)
(* The chunker's configuration (lines 191-199, 242-273).  Sizes are in     *)
(* units of one SHA256 digest, durations in seconds.                       *)
(***************************************************************************)

\* crypto.SHA256, the default hash function.
hasherfunc == 5

\* The default branching; it is the branching the tree model is built with.
defaultBranches == Branches

joinTimeout == 120
splitTimeout == 120

\* HashFunc.New().Size(): SHA256 gives one unit, SHA512 (crypto.Hash 7) two.
HashFuncSize(h) == IF h = hasherfunc THEN HashSize ELSE 2 * HashSize

\* A TreeChunker as the composite literal leaves it: the exported fields as the
\* caller sets them (zero when left out), the calculated ones zero.
NewTreeChunker(branches, hashFunc, jt, st) ==
    [Branches |-> branches, HashFunc |-> hashFunc, JoinTimeout |-> jt,
     SplitTimeout |-> st, hashSize |-> 0, chunkSize |-> 0]

\* An Init that sets every field to its default.
InitFieldsReset(t) ==
    [Branches |-> defaultBranches, HashFunc |-> hasherfunc, JoinTimeout |-> joinTimeout,
     SplitTimeout |-> splitTimeout, hashSize |-> HashFuncSize(hasherfunc),
     chunkSize |-> HashFuncSize(hasherfunc) * defaultBranches]

\* Init, lines 252-269: the fields after the call.
InitFields(t) ==
    LET HashFunc == IF t.HashFunc = 0 THEN hasherfunc ELSE t.HashFunc
        branches == IF t.Branches = 0 THEN defaultBranches ELSE t.Branches
        JoinTimeout == IF t.JoinTimeout = 0 THEN joinTimeout ELSE t.JoinTimeout
        SplitTimeout == IF t.SplitTimeout = 0 THEN splitTimeout ELSE t.SplitTimeout
        hashSize == HashFuncSize(HashFunc)
    IN  [Branches |-> branches, HashFunc |-> HashFunc, JoinTimeout |-> JoinTimeout,
         SplitTimeout |-> SplitTimeout, hashSize |-> hashSize,
         chunkSize |-> hashSize * branches]

\* KeySize, lines 271-273.
KeySize == chunker.hashSize

\* Init calls made on one chunker.
MaxInits == 2

\* Iterations of the depth loop that are told apart.
MaxDepth == 4

\* The depth loop before Split is called.
NoLoop == [pc |-> "idle", depth |-> 0, treeSize |-> 0, size |-> 0]

\* The chunker of the tree model: all defaults, initialised or not.
ChunkerFixed ==
    /\ chunker = IF initialised THEN InitFields(NewTreeChunker(0, 0, 0, 0))
                 ELSE NewTreeChunker(0, 0, 0, 0)
    /\ initHist = [set |-> NewTreeChunker(0, 0, 0, 0), first |-> chunker,
                   inits |-> IF initialised THEN 1 ELSE 0]
    /\ depthLoop = NoLoop

\* self.chunkSize: set by Init (line 266), zero on a chunker Init never ran on.
selfChunkSize == chunker.chunkSize

\* Split, lines 291-353: the goroutines are started and errC is returned.
Split ==
    /\ call = "idle"
    /\ selfChunkSize > 0
    /\ call' = "split"
    /\ wg' = 1
    /\ task' = (<<>> :> rootTask(Len(data)))
    /\ UNCHANGED <<data, hasSwg, swg, rootKey, rerrC, closer, selector, selErr, timeout,
                   errC, storeOn, sent, readErrs>>
    /\ UNCHANGED envVars
    /\ UNCHANGED readVars

\* Mutant: the leaf payload has no size prefix.
leafChunkDataBare(d, pos, size, ok) == SourceRead(d, pos, size, ok)

\* Lines 372-374: the payload of a leaf, size_le64 || the bytes read.
leafChunkData(d, pos, size, ok) == PutUint64(size) \o SourceRead(d, pos, size, ok)

\* Lines 388-391: the payload a branch allocates, size_le64 || branchCnt zeroed key slots.
branchChunk(size, branchCnt) == PutUint64(size) \o Zeros(branchCnt * HashSize)

\* split, lines 357-382: a leaf builds its chunk from the data; ok tells whether
\* data.ReadAt delivered (its error is not looked at, line 374).
leafChunk(p, ok) ==
    LET t == task[p]
        d == Descend(t.depth, t.treeSize, t.size)
        chunkData == leafChunkData(data, t.pos, t.size, ok)
    IN  /\ call = "split" /\ p \in DOMAIN task /\ t.pc = "start"
        /\ d[1] = 0
        /\ task' = [task EXCEPT ![p] = [t EXCEPT !.pc = "send", !.leaf = TRUE,
                                          !.depth = d[1], !.treeSize = d[2],
                                          !.chunk = chunkData,
                                          !.hash = copy(t.hash, Hash(chunkData))]]

\* A leaf whose data.ReadAt delivers.
splitLeaf(p) ==
    /\ leafChunk(p, TRUE)
    /\ UNCHANGED <<data, hasSwg, swg, call, rootKey, wg, rerrC, closer, selector, selErr,
                   timeout, errC, storeOn, sent, readErrs>>
    /\ UNCHANGED envVars
    /\ UNCHANGED readVars

\* A leaf whose data.ReadAt fails.
splitLeafReadErr(p) ==
    /\ Cardinality(readErrs) < MaxReadErrors
    /\ leafChunk(p, FALSE)
    /\ readErrs' = readErrs \cup {p}
    /\ UNCHANGED <<data, hasSwg, swg, call, rootKey, wg, rerrC, closer, selector, selErr,
                   timeout, errC, storeOn, sent>>
    /\ UNCHANGED envVars
    /\ UNCHANGED readVars

\* split, lines 357-369 and 383-413: a branch allocates its chunk and starts a
\* goroutine per child.
splitBranch(p) ==
    /\ call = "split" /\ p \in DOMAIN task /\ task[p].pc = "start"
    /\ LET t == task[p]
           d == Descend(t.depth, t.treeSize, t.size)
           depth == d[1]
           treeSize == d[2]
           branchCnt == BranchCnt(t.size, treeSize)
           chunk == branchChunk(t.size, branchCnt)
           kids == {Append(p, i) : i \in 0..(branchCnt - 1)}
           kid(q) == NewTask(depth - 1, treeSize \div Branches,
                             t.pos + ChildIx(q) * treeSize,
                             SecSize(t.size, ChildIx(q) * treeSize, treeSize))
       IN  /\ depth > 0
           /\ task' = [q \in DOMAIN task \cup kids |->
                         IF q = p THEN [t EXCEPT !.pc = "wait", !.depth = depth,
                                          !.treeSize = treeSize, !.chunk = chunk,
                                          !.keys = [i \in 1..branchCnt |-> SubTreeKey(chunk, i - 1)],
                                          !.childrenWg = branchCnt]
                         ELSE IF q \in kids THEN kid(q) ELSE task[q]]
    /\ UNCHANGED <<data, hasSwg, swg, call, rootKey, wg, rerrC, closer, selector, selErr,
                   timeout, errC, storeOn, sent, readErrs>>
    /\ UNCHANGED envVars
    /\ UNCHANGED readVars

\* Mutant: the branch does not wait for its children.
childrenWgNoWait(p) == TRUE

\* Mutant: the branch waits for one child only.
childrenWgWaitOne(p) == task[p].childrenWg < Len(task[p].keys)

\* childrenWg.Wait() of line 415 returns.
childrenWgWait(p) == task[p].childrenWg = 0

\* split, lines 415-432: childrenWg.Wait() returns, the branch chunk is hashed and
\* registered with the persistence barrier.
splitHash(p) ==
    /\ call = "split" /\ p \in DOMAIN task /\ task[p].pc = "wait"
    /\ childrenWgWait(p)
    /\ task' = [task EXCEPT ![p].pc = "send",
                            ![p].hash = copy(task[p].hash, Hash(task[p].chunk))]
    /\ swg' = IF hasSwg THEN swg + 1 ELSE swg
    /\ UNCHANGED <<data, hasSwg, call, rootKey, wg, rerrC, closer, selector, selErr,
                   timeout, errC, storeOn, sent, readErrs>>
    /\ UNCHANGED envVars
    /\ UNCHANGED readVars

\* The chunk a split goroutine sends (lines 378-382, 422-427); node is the tree
\* position it was built for.
newChunk(p) ==
    [Key |-> task[p].hash, SData |-> task[p].chunk, Size |-> task[p].size,
     wg |-> hasSwg /\ ~task[p].leaf, node |-> p]

\* A task that stays at its send after the store has received the chunk.
afterChunkSendAgain == "send"

\* split, lines 436-440: once the store has received the chunk the goroutine goes
\* on to copy its hash into the key slot.
afterChunkSend == "copykey"

\* split, line 436: chunkC <- newChunk, received by the store.
splitSend(p) ==
    /\ call = "split" /\ p \in DOMAIN task /\ task[p].pc = "send"
    /\ storeOn /\ chunkC = "open"
    /\ sent' = sent \cup {newChunk(p)}
    /\ task' = [task EXCEPT ![p].pc = afterChunkSend]
    /\ UNCHANGED <<data, hasSwg, swg, call, rootKey, wg, rerrC, closer, selector, selErr,
                   timeout, errC, storeOn, readErrs>>
    /\ UNCHANGED envVars
    /\ UNCHANGED readVars

\* split, lines 440 and 357: copy(key[:], hash[:]) into the slot the goroutine was
\* given, then the deferred parentWg.Done().
splitDone(p) ==
    /\ call = "split" /\ p \in DOMAIN task /\ task[p].pc = "copykey"
    /\ IF p = <<>>
       THEN /\ rootKey' = copy(rootKey, task[p].hash)
            /\ wg' = wg - 1
            /\ task' = [task EXCEPT ![p].pc = "done"]
       ELSE /\ task' = [task EXCEPT ![p].pc = "done",
                          ![Parent(p)].keys[ChildIx(p) + 1] = copy(@, task[p].hash),
                          ![Parent(p)].childrenWg = @ - 1]
            /\ UNCHANGED <<rootKey, wg>>
    /\ UNCHANGED <<data, hasSwg, swg, call, rerrC, closer, selector, selErr, timeout,
                   errC, storeOn, sent, readErrs>>
    /\ UNCHANGED envVars
    /\ UNCHANGED readVars

\* Mutant: rerrC is closed without waiting for the root split.
wgNoWait == TRUE

\* wg.Wait() of line 333 returns.
wgWait == wg = 0

\* Lines 332-337: wg.Wait(); close(rerrC).
closeRerrC ==
    /\ call = "split" /\ closer = "wait" /\ wgWait
    /\ rerrC' = "closed"
    /\ closer' = "done"
    /\ UNCHANGED <<data, hasSwg, swg, call, task, rootKey, wg, selector, selErr, timeout,
                   errC, storeOn, sent, readErrs>>
    /\ UNCHANGED envVars
    /\ UNCHANGED readVars

\* Mutant: whatever rerrC delivered is forwarded, nil included.
afterRerrCAlwaysSend(err) == "send"

\* Lines 343-345: if err != nil { errC <- err }; where the selector goes on.
afterRerrC(err) == IF err # NoErr THEN "send" ELSE "close"

\* Lines 341-345: the select receives from rerrC.  Nothing ever sends on rerrC, so
\* the receive is the zero value of a closed channel: err == nil.
selectRerrC ==
    /\ call = "split" /\ selector = "select" /\ rerrC = "closed"
    /\ selErr' = NoErr
    /\ selector' = afterRerrC(NoErr)
    /\ UNCHANGED <<data, hasSwg, swg, call, task, rootKey, wg, rerrC, closer,
                   timeout, errC, storeOn, sent, readErrs>>
    /\ UNCHANGED envVars
    /\ UNCHANGED readVars

\* Lines 346-347: the select receives from the timer.
selectTimeout ==
    /\ call = "split" /\ selector = "select" /\ timeout = "ready"
    /\ timeout' = "taken"
    /\ selErr' = SplitTimeOut
    /\ selector' = "send"
    /\ UNCHANGED <<data, hasSwg, swg, call, task, rootKey, wg, rerrC, closer, errC,
                   storeOn, sent, readErrs>>
    /\ UNCHANGED envVars
    /\ UNCHANGED readVars

\* Mutant: the selector returns after the send and never closes errC.
afterSendReturn == "done"

\* Lines 347-349: after errC <- err the selector goes on to close(errC).
afterSend == "close"

\* Line 347: errC <- err, received by the caller.
sendErr ==
    /\ call = "split" /\ selector = "send"
    /\ errC' = [errC EXCEPT !.delivered = Append(@, selErr)]
    /\ selector' = afterSend
    /\ UNCHANGED <<data, hasSwg, swg, call, task, rootKey, wg, rerrC, closer, selErr,
                   timeout, storeOn, sent, readErrs>>
    /\ UNCHANGED envVars
    /\ UNCHANGED readVars

\* Line 349: close(errC).
closeErrC ==
    /\ call = "split" /\ selector = "close"
    /\ errC' = [errC EXCEPT !.closed = @ + 1]
    /\ selector' = "done"
    /\ UNCHANGED <<data, hasSwg, swg, call, task, rootKey, wg, rerrC, closer, selErr,
                   timeout, storeOn, sent, readErrs>>
    /\ UNCHANGED envVars
    /\ UNCHANGED readVars

\* Line 305: the timer of time.After(self.SplitTimeout) fires.
timerFires ==
    /\ call = "split" /\ timeout = "pending"
    /\ timeout' = "ready"
    /\ UNCHANGED <<data, hasSwg, swg, call, task, rootKey, wg, rerrC, closer, selector,
                   selErr, errC, storeOn, sent, readErrs>>
    /\ UNCHANGED envVars
    /\ UNCHANGED readVars

\* The store stops receiving from chunkC.
storeStops ==
    /\ call = "split" /\ storeOn
    /\ storeOn' = FALSE
    /\ UNCHANGED <<data, hasSwg, swg, call, task, rootKey, wg, rerrC, closer, selector,
                   selErr, timeout, errC, sent, readErrs>>
    /\ UNCHANGED envVars
    /\ UNCHANGED readVars

\* Mutant: the deferred swg.Done() does not run when Split panics.
deferredDoneSkipped(n) == n

\* defer swg.Done() of line 295: runs when Split returns and when it panics.
deferredDone(n) == n - 1

\* Split, lines 293-300, on a chunker whose chunkSize is not positive: swg.Add(1),
\* then panic("chunker must be initialised") and the deferred swg.Done().
SplitUninitialised ==
    /\ call = "idle"
    /\ selfChunkSize <= 0
    /\ call' = "panic"
    /\ swg' = IF hasSwg THEN deferredDone(swg + 1) ELSE swg
    /\ UNCHANGED <<data, hasSwg, task, rootKey, wg, rerrC, closer, selector, selErr,
                   timeout, errC, storeOn, sent, readErrs>>
    /\ UNCHANGED envVars
    /\ UNCHANGED readVars

\* The store closes the chunk channel.
storeCloses ==
    /\ call = "split" /\ chunkC = "open"
    /\ chunkC' = "closed"
    /\ UNCHANGED <<data, hasSwg, swg, call, task, rootKey, wg, rerrC, closer, selector,
                   selErr, timeout, errC, storeOn, sent, readErrs, initialised, signalled,
                   chunker, initHist, depthLoop>>
    /\ UNCHANGED readVars

\* split, line 436: chunkC <- newChunk on a closed channel panics in the split
\* goroutine, which ends the process.
splitSendClosed(p) ==
    /\ call = "split" /\ p \in DOMAIN task /\ task[p].pc = "send"
    /\ chunkC = "closed"
    /\ call' = "panic"
    /\ UNCHANGED <<data, hasSwg, swg, task, rootKey, wg, rerrC, closer, selector, selErr,
                   timeout, errC, storeOn, sent, readErrs>>
    /\ UNCHANGED envVars
    /\ UNCHANGED readVars

\* The store has stored chunk c and signals the barrier the chunk carries
\* (chunk.wg.Done()); a chunk without a handle cannot be signalled.
storeDone(c) ==
    /\ call = "split" /\ c \in sent /\ c \notin signalled
    /\ c.wg
    /\ swg' = swg - 1
    /\ signalled' = signalled \cup {c}
    /\ UNCHANGED <<data, hasSwg, call, task, rootKey, wg, rerrC, closer, selector, selErr,
                   timeout, errC, storeOn, sent, readErrs, initialised, chunkC,
                   chunker, initHist, depthLoop>>
    /\ UNCHANGED readVars

\* The longest content split: the inputs of Split go up to MaxLen, the contents whose
\* tree shape is looked at up to the shortest one with a full tree of two levels of
\* branches.
ShapeMax == chunkSize * Branches * Branches
MaxSize == IF ShapeMax > MaxLen THEN ShapeMax ELSE MaxLen

\* The tree positions a goroutine can have.
Paths == UNION {[1..n -> 0..(Branches - 1)] : n \in 0..RootDepth(0, chunkSize, MaxSize)[1]}

\* The state before Split is called: with or without a persistence barrier, on a
\* chunker that is or is not initialised.
SplitIdle(contents, barrier, inited) ==
    /\ data \in contents
    /\ hasSwg \in barrier
    /\ initialised \in inited
    /\ chunkC = "open"
    /\ signalled = {}
    /\ swg = 0
    /\ call = "idle"
    /\ task = <<>>
    /\ rootKey = ZeroHash
    /\ wg = 0
    /\ rerrC = "open"
    /\ closer = "wait"
    /\ selector = "select"
    /\ selErr = NoErr
    /\ timeout = "pending"
    /\ errC = [delivered |-> <<>>, closed |-> 0]
    /\ storeOn = TRUE
    /\ sent = {}
    /\ readErrs = {}

\* The same on the chunker of the tree model.
SplitInitOn(contents, barrier, inited) == SplitIdle(contents, barrier, inited) /\ ChunkerFixed

SplitInitOf(barrier, inited) == SplitInitOn(DataSet, barrier, inited)

SplitInit == SplitInitOf({FALSE}, {TRUE})

SplitStep ==
    \/ \E p \in Paths : splitLeaf(p)
    \/ \E p \in Paths : splitBranch(p)
    \/ \E p \in Paths : splitHash(p)
    \/ \E p \in Paths : splitSend(p)
    \/ \E p \in Paths : splitDone(p)
    \/ closeRerrC
    \/ selectRerrC
    \/ selectTimeout
    \/ sendErr
    \/ closeErrC

(***************************************************************************)
(* TreeChunker.Join, LazyChunkReader.ReadAt and LazyChunkReader.join.      *)
(* The reader is Join(&rootKey, chunkC); the store that answers its        *)
(* requests holds the chunks of sent.                                      *)
(***************************************************************************)

\* What a byte of the caller's buffer holds before the read.
Stale == B(255)

EOF == "EOF"
NotFound == "notFound"
ChunkNotFound == "chunk not found"

\* The payload the store delivers for a key: empty when it does not hold the key.
StoreGet(key) ==
    IF \E c \in sent : c.Key = key
    THEN (CHOOSE c \in sent : c.Key = key).SData
    ELSE <<>>

\* buf with bs written at offset at (copy into a sub-slice of b).
WriteAt(b, at, bs) ==
    [i \in 1..Len(b) |-> IF i > at /\ i <= at + Len(bs) THEN bs[i - at] ELSE b[i]]

\* A ReadAt call that has not been made; ch is the channel its select waits on.
NoRead == [pc |-> "idle", off |-> 0, len |-> 0, isNil |-> FALSE, SData |-> <<>>,
           n |-> 0, err |-> NoErr, ch |-> 0]

\* ReadAt, lines 468-473: self.errC = make(chan error), and the request for the root
\* chunk is about to be sent.  The channel made by call c is channel c.
ReadAt(c, b, off) ==
    /\ rd[c].pc = "idle" /\ ~rpanic
    /\ rd' = [rd EXCEPT ![c].pc = "request", ![c].off = off, ![c].len = b.len,
                        ![c].isNil = b.isNil]
    /\ buf' = [buf EXCEPT ![c] = [i \in 1..b.len |-> Stale]]
    /\ selfErrC' = c
    /\ UNCHANGED <<rsize, jtask, rwg, readErrC, rcloser, rpanic>>
    /\ UNCHANGED splitVars

\* Line 473: self.chunkC <- chunk, received by the store.
readRequest(c) ==
    /\ rd[c].pc = "request" /\ ~rpanic
    /\ rd' = [rd EXCEPT ![c].pc = "await"]
    /\ UNCHANGED <<buf, rsize, jtask, rwg, readErrC, selfErrC, rcloser, rpanic>>
    /\ UNCHANGED splitVars

\* The store fills in the root chunk's payload and closes chunk.C (line 482).
readDelivery(c) ==
    /\ rd[c].pc = "await" /\ ~rpanic
    /\ rd' = [rd EXCEPT ![c].pc = "delivered", ![c].SData = StoreGet(rootKey)]
    /\ UNCHANGED <<buf, rsize, jtask, rwg, readErrC, selfErrC, rcloser, rpanic>>
    /\ UNCHANGED splitVars

\* Mutant: the depth handed to a join goroutine is one too high.
NewJoinSameDepth(pc, b0, len, off, eoff, depth, treeSize, j, SData) ==
    [pc |-> pc, b0 |-> b0, len |-> len, off |-> off, eoff |-> eoff, depth |-> depth + 1,
     treeSize |-> treeSize, j |-> j, SData |-> SData, wg |-> 0, ch |-> 0]

\* A join goroutine about to run join(b[b0:b0+len], off, eoff, depth, treeSize, chunk);
\* ch is the channel its send of line 594 is on.
NewJoin(pc, b0, len, off, eoff, depth, treeSize, j, SData) ==
    [pc |-> pc, b0 |-> b0, len |-> len, off |-> off, eoff |-> eoff, depth |-> depth,
     treeSize |-> treeSize, j |-> j, SData |-> SData, wg |-> 0, ch |-> 0]

\* want of lines 495-498.
Want(len, off, size) == IF off + len > size THEN size - off ELSE len

\* Mutant: a missing root is reported as an empty read without an error.
rootNotFoundAsNil == [n |-> 0, err |-> NoErr]

\* return 0, notFound of line 487.
rootNotFound == [n |-> 0, err |-> NotFound]

\* ReadAt, lines 485-512: the root chunk has been delivered.
readStart(c) ==
    /\ rd[c].pc = "delivered" /\ ~rpanic
    /\ IF Len(rd[c].SData) = 0
       THEN /\ rd' = [rd EXCEPT ![c].pc = "returned", ![c].n = rootNotFound.n,
                                ![c].err = rootNotFound.err]
            /\ UNCHANGED <<rsize, jtask, rwg, rcloser, rpanic>>
       ELSE IF Len(rd[c].SData) < 8
       THEN /\ rpanic' = TRUE
            /\ UNCHANGED <<rd, rsize, jtask, rwg, rcloser>>
       ELSE LET size == Uint64(rd[c].SData)
                want == Want(rd[c].len, rd[c].off, size)
                dt == RootDepth(0, chunkSize, size)
            IN  /\ rsize' = size
                /\ IF rd[c].isNil
                   THEN /\ rd' = [rd EXCEPT ![c].pc = "returned", ![c].n = 0,
                                            ![c].err = NoErr]
                        /\ UNCHANGED <<jtask, rwg, rcloser, rpanic>>
                   ELSE /\ rd' = [rd EXCEPT ![c].pc = "select"]
                        /\ rwg' = [rwg EXCEPT ![c] = 1]
                        /\ jtask' = [jtask EXCEPT ![c] =
                                       (<<>> :> NewJoin("start", 0, rd[c].len, rd[c].off,
                                                        rd[c].off + want, dt[1],
                                                        dt[2] \div Branches, 0, rd[c].SData))]
                        /\ rcloser' = [rcloser EXCEPT ![c] = "wait"]
                        /\ UNCHANGED rpanic
    /\ UNCHANGED <<buf, readErrC, selfErrC>>
    /\ UNCHANGED splitVars

\* parentWg.Done() of the join goroutine q (line 528).
joinDone(jt, q) ==
    IF q = <<>> THEN [jt EXCEPT ![q].pc = "done"]
    ELSE [jt EXCEPT ![q].pc = "done", ![Parent(q)].wg = @ - 1]

\* join, lines 532-549: a leaf copies its part of the payload into b.
joinLeaf(c, q) ==
    /\ q \in DOMAIN jtask[c] /\ jtask[c][q].pc = "start" /\ ~rpanic
    /\ Len(jtask[c][q].SData) >= 8
    /\ LET t == jtask[c][q]
           size == Uint64(t.SData)
           d == Descend(t.depth, t.treeSize, size)
       IN  /\ d[1] = 0
           /\ IF t.len # t.eoff - t.off \/ t.off > t.eoff \/ 8 + t.eoff > Len(t.SData)
              THEN /\ rpanic' = TRUE
                   /\ UNCHANGED <<buf, jtask, rwg>>
              ELSE /\ buf' = [buf EXCEPT ![c] =
                                WriteAt(@, t.b0, Slice(t.SData, 8 + t.off, 8 + t.eoff))]
                   /\ jtask' = [jtask EXCEPT ![c] = joinDone(@, q)]
                   /\ rwg' = IF q = <<>> THEN [rwg EXCEPT ![c] = @ - 1] ELSE rwg
                   /\ UNCHANGED rpanic
    /\ UNCHANGED <<rd, rsize, readErrC, selfErrC, rcloser>>
    /\ UNCHANGED splitVars

\* join, line 532: chunk.SData[0:8] on a delivered payload of fewer than 8 bytes is
\* out of range and panics.
joinShort(c, q) ==
    /\ q \in DOMAIN jtask[c] /\ jtask[c][q].pc = "start" /\ ~rpanic
    /\ Len(jtask[c][q].SData) < 8
    /\ rpanic' = TRUE
    /\ UNCHANGED <<rd, buf, rsize, jtask, rwg, readErrC, selfErrC, rcloser>>
    /\ UNCHANGED splitVars

\* The sub-range of child i (lines 558-567 and 590-592), relative to the parent's range.
Soff(i, treeSize, off) == IF i * treeSize < off THEN off ELSE i * treeSize
Seoff(i, treeSize, eoff) == IF i * treeSize + treeSize > eoff THEN eoff ELSE i * treeSize + treeSize

\* A reader that goes one child past the last byte of the range.
SubtreeEndNext(eoff, treeSize) == eoff \div treeSize + 1

\* The children a range [off, eoff) of a branch reaches into (lines 552-553).
SubtreeStart(off, treeSize) == off \div treeSize
SubtreeEnd(eoff, treeSize) == (eoff + treeSize - 1) \div treeSize

\* A reader that hands every child the start of its own slice.
SubSliceWhole(b0, soff, off) == b0

\* Where in the caller's buffer the slice b[soff-off:seoff-off] of a child starts,
\* b itself starting at b0 (line 597).
SubSlice(b0, soff, off) == b0 + (soff - off)

\* join, lines 532-538 and 551-599: a branch starts a goroutine per child in range.
joinBranch(c, q) ==
    /\ q \in DOMAIN jtask[c] /\ jtask[c][q].pc = "start" /\ ~rpanic
    /\ Len(jtask[c][q].SData) >= 8
    /\ LET t == jtask[c][q]
           size == Uint64(t.SData)
           d == Descend(t.depth, t.treeSize, size)
           depth == d[1]
           treeSize == d[2]
           start == SubtreeStart(t.off, treeSize)
           end == SubtreeEnd(t.eoff, treeSize)
           kids == {Append(q, i) : i \in start..(end - 1)}
           kid(k) == LET i == ChildIx(k)
                         soff == Soff(i, treeSize, t.off)
                         seoff == Seoff(i, treeSize, t.eoff)
                         roff == i * treeSize
                     IN  NewJoin("request", SubSlice(t.b0, soff, t.off), seoff - soff,
                                 soff - roff, seoff - roff, depth - 1,
                                 treeSize \div Branches, i, <<>>)
       IN  /\ depth > 0
           /\ jtask' = [jtask EXCEPT ![c] =
                          [k \in DOMAIN jtask[c] \cup kids |->
                             IF k = q THEN [t EXCEPT !.pc = "wait", !.depth = depth,
                                              !.treeSize = treeSize, !.wg = end - start]
                             ELSE IF k \in kids THEN kid(k) ELSE jtask[c][k]]]
    /\ UNCHANGED <<rd, buf, rsize, rwg, readErrC, selfErrC, rcloser, rpanic>>
    /\ UNCHANGED splitVars

\* A reader that takes the first key of a branch payload for every child.
ChildKeyFirst(SData, j) == Slice(SData, 8, 8 + HashSize)

\* The key of child j in a branch payload (line 572).
ChildKey(SData, j) == Slice(SData, 8 + j * HashSize, 8 + (j + 1) * HashSize)

\* join, lines 571-580: the child goroutine sends its request, received by the store.
joinRequest(c, q) ==
    /\ q \in DOMAIN jtask[c] /\ jtask[c][q].pc = "request" /\ ~rpanic
    /\ IF 8 + (jtask[c][q].j + 1) * HashSize > Len(jtask[c][Parent(q)].SData)
       THEN /\ rpanic' = TRUE
            /\ UNCHANGED jtask
       ELSE /\ jtask' = [jtask EXCEPT ![c][q].pc = "await"]
            /\ UNCHANGED rpanic
    /\ UNCHANGED <<rd, buf, rsize, rwg, readErrC, selfErrC, rcloser>>
    /\ UNCHANGED splitVars

\* The store fills in the child chunk's payload and closes ch.C (line 587); the
\* goroutine goes on to join, or to report the missing chunk (lines 593-597).
joinDelivery(c, q) ==
    /\ q \in DOMAIN jtask[c] /\ jtask[c][q].pc = "await" /\ ~rpanic
    /\ LET SData == StoreGet(ChildKey(jtask[c][Parent(q)].SData, jtask[c][q].j))
       IN  jtask' = [jtask EXCEPT ![c][q].SData = SData,
                                  ![c][q].pc = IF Len(SData) = 0 THEN "missing" ELSE "start"]
    /\ UNCHANGED <<rd, buf, rsize, rwg, readErrC, selfErrC, rcloser, rpanic>>
    /\ UNCHANGED splitVars

\* join, line 594: the goroutine of a missing chunk comes to self.errC <- err; the
\* channel is the one self.errC holds at that moment.
joinMissing(c, q) ==
    /\ q \in DOMAIN jtask[c] /\ jtask[c][q].pc = "missing" /\ ~rpanic
    /\ jtask' = [jtask EXCEPT ![c][q].pc = "senderr", ![c][q].ch = selfErrC]
    /\ UNCHANGED <<rd, buf, rsize, rwg, readErrC, selfErrC, rcloser, rpanic>>
    /\ UNCHANGED splitVars

\* join, line 600: wg.Wait() returns, then the deferred parentWg.Done().
joinWait(c, q) ==
    /\ q \in DOMAIN jtask[c] /\ jtask[c][q].pc = "wait" /\ ~rpanic
    /\ jtask[c][q].wg = 0
    /\ jtask' = [jtask EXCEPT ![c] = joinDone(@, q)]
    /\ rwg' = IF q = <<>> THEN [rwg EXCEPT ![c] = @ - 1] ELSE rwg
    /\ UNCHANGED <<rd, buf, rsize, readErrC, selfErrC, rcloser, rpanic>>
    /\ UNCHANGED splitVars

\* Lines 509-512: wg.Wait(); close(self.errC), of the channel self.errC holds at that
\* moment.  Closing a closed channel panics.
readCloser(c) ==
    /\ rcloser[c] = "wait" /\ rwg[c] = 0 /\ ~rpanic
    /\ rcloser' = [rcloser EXCEPT ![c] = "done"]
    /\ IF readErrC[selfErrC] >= 1
       THEN /\ rpanic' = TRUE
            /\ UNCHANGED readErrC
       ELSE /\ readErrC' = [readErrC EXCEPT ![selfErrC] = @ + 1]
            /\ UNCHANGED rpanic
    /\ UNCHANGED <<rd, buf, rsize, jtask, rwg, selfErrC>>
    /\ UNCHANGED splitVars

\* Line 513-514: ReadAt enters the select; its receive is on the channel self.errC
\* holds at that moment.
readSelect(c) ==
    /\ rd[c].pc = "select" /\ ~rpanic
    /\ rd' = [rd EXCEPT ![c].pc = "selecting", ![c].ch = selfErrC]
    /\ UNCHANGED <<buf, rsize, jtask, rwg, readErrC, selfErrC, rcloser, rpanic>>
    /\ UNCHANGED splitVars

\* read and err of lines 516-519.
ReadResult(len, off, size, err) ==
    [n |-> len, err |-> IF off + len = size THEN EOF ELSE err]

\* Lines 513-524: the select receives from the closed errC.
readSelectClosed(c) ==
    /\ rd[c].pc = "selecting" /\ readErrC[rd[c].ch] >= 1 /\ ~rpanic
    /\ LET r == ReadResult(rd[c].len, rd[c].off, rsize, NoErr)
       IN  rd' = [rd EXCEPT ![c].pc = "returned", ![c].n = r.n, ![c].err = r.err]
    /\ UNCHANGED <<buf, rsize, jtask, rwg, readErrC, selfErrC, rcloser, rpanic>>
    /\ UNCHANGED splitVars

\* Lines 513-524 and 594: the select of call c receives the error that goroutine q of
\* call c2 sends on the same channel.
readSelectErr(c, c2, q) ==
    /\ rd[c].pc = "selecting" /\ ~rpanic
    /\ q \in DOMAIN jtask[c2] /\ jtask[c2][q].pc = "senderr"
    /\ jtask[c2][q].ch = rd[c].ch
    /\ LET r == ReadResult(rd[c].len, rd[c].off, rsize, ChunkNotFound)
       IN  rd' = [rd EXCEPT ![c].pc = "returned", ![c].n = r.n, ![c].err = r.err]
    /\ jtask' = [jtask EXCEPT ![c2][q].pc = "exit"]
    /\ UNCHANGED <<buf, rsize, rwg, readErrC, selfErrC, rcloser, rpanic>>
    /\ UNCHANGED splitVars

\* The buffers a caller hands to ReadAt.
Buffers(maxLen) ==
    {[isNil |-> FALSE, len |-> n] : n \in 0..maxLen} \cup {[isNil |-> TRUE, len |-> 0]}

\* Join, lines 445-454: a reader on which no ReadAt has been called; channel 0 is
\* the errC that Join made.
ReadInit ==
    /\ rd = [c \in Calls |-> NoRead]
    /\ buf = [c \in Calls |-> <<>>]
    /\ rsize = 0
    /\ jtask = [c \in Calls |-> <<>>]
    /\ rwg = [c \in Calls |-> 0]
    /\ readErrC = [ch \in 0..MaxCalls |-> 0]
    /\ selfErrC = 0
    /\ rcloser = [c \in Calls |-> "none"]
    /\ rpanic = FALSE

ReadStep ==
    \/ \E c \in Calls : readRequest(c)
    \/ \E c \in Calls : readDelivery(c)
    \/ \E c \in Calls : readStart(c)
    \/ \E c \in Calls : \E q \in Paths : joinLeaf(c, q)
    \/ \E c \in Calls : \E q \in Paths : joinBranch(c, q)
    \/ \E c \in Calls : \E q \in Paths : joinRequest(c, q)
    \/ \E c \in Calls : \E q \in Paths : joinDelivery(c, q)
    \/ \E c \in Calls : \E q \in Paths : joinMissing(c, q)
    \/ \E c \in Calls : \E q \in Paths : joinWait(c, q)
    \/ \E c \in Calls : readCloser(c)
    \/ \E c \in Calls : readSelect(c)
    \/ \E c \in Calls : readSelectClosed(c)
    \/ \E c, c2 \in Calls : \E q \in Paths : readSelectErr(c, c2, q)

(***************************************************************************)
(* split run to completion on one goroutine schedule: the key a split of   *)
(* the section [pos, pos+size) of d reports, and the chunks it and its     *)
(* subtree send.                                                           *)
(***************************************************************************)

RECURSIVE splitSeq(_, _, _, _, _, _)
splitSeq(d, node, depth0, treeSize0, pos, size) ==
    LET dd == Descend(depth0, treeSize0, size)
        depth == dd[1]
        treeSize == dd[2]
    IN  IF depth = 0
        THEN LET chunkData == leafChunkData(d, pos, size, TRUE)
             IN  [key |-> Hash(chunkData),
                  chunks |-> {[Key |-> Hash(chunkData), SData |-> chunkData,
                               Size |-> size, node |-> node]}]
        ELSE LET branchCnt == BranchCnt(size, treeSize)
                 chunk == branchChunk(size, branchCnt)
                 kid(i) == splitSeq(d, Append(node, i), depth - 1, treeSize \div Branches,
                                    pos + i * treeSize, SecSize(size, i * treeSize, treeSize))
             IN  [key |-> Hash(chunk),
                  chunks |-> {[Key |-> Hash(chunk), SData |-> chunk, Size |-> size,
                               node |-> node]}
                             \cup UNION {kid(i).chunks : i \in 0..(branchCnt - 1)}]

\* Split(d) run to completion: lines 312-326, then split.
SplitSeq(d) ==
    LET dt == RootDepth(0, chunkSize, Len(d))
    IN  splitSeq(d, <<>>, dt[1], dt[2] \div Branches, 0, Len(d))

\* What split, called with (depth0, treeSize0) on a section of the given size, makes
\* of the node at path below it: whether it is a leaf, its child span and its size
\* (lines 365-370, 385 and 393-413).
RECURSIVE splitNode(_, _, _, _)
splitNode(depth0, treeSize0, size, path) ==
    LET dd == Descend(depth0, treeSize0, size)
    IN  IF path = <<>>
        THEN [leaf |-> dd[1] = 0, treeSize |-> dd[2], size |-> size]
        ELSE splitNode(dd[1] - 1, dd[2] \div Branches,
                       SecSize(size, Head(path) * dd[2], dd[2]), Tail(path))

\* Where in the content the section of the node at path starts, split being called
\* with (depth0, treeSize0) on a section of the given size at pos (lines 393-413).
RECURSIVE splitPos(_, _, _, _, _)
splitPos(depth0, treeSize0, pos, size, path) ==
    LET dd == Descend(depth0, treeSize0, size)
    IN  IF path = <<>>
        THEN pos
        ELSE splitPos(dd[1] - 1, dd[2] \div Branches, pos + Head(path) * dd[2],
                      SecSize(size, Head(path) * dd[2], dd[2]), Tail(path))

\* The same in the tree of Split on a content of the given size.
SplitPos(size, path) ==
    LET dt == RootDepth(0, chunkSize, size)
    IN  splitPos(dt[1], dt[2] \div Branches, 0, size, path)

\* The same for the node at path in the tree of Split on a content of the given size.
SplitNode(size, path) ==
    LET dt == RootDepth(0, chunkSize, size)
    IN  splitNode(dt[1], dt[2] \div Branches, size, path)

(***************************************************************************)
(* A store that holds a well-formed tree for d: shaped as split shapes it, *)
(* every branch payload holding the keys of its children's chunks.         *)
(***************************************************************************)

RECURSIVE Concat(_)
Concat(ss) == IF ss = <<>> THEN <<>> ELSE Head(ss) \o Concat(Tail(ss))

RECURSIVE wellFormed(_, _, _, _, _, _)
wellFormed(d, node, depth0, treeSize0, pos, size) ==
    LET dd == Descend(depth0, treeSize0, size)
        depth == dd[1]
        treeSize == dd[2]
    IN  IF depth = 0
        THEN LET chunkData == PutUint64(size) \o Bytes(Slice(d, pos, pos + size))
             IN  [key |-> Hash(chunkData),
                  chunks |-> {[Key |-> Hash(chunkData), SData |-> chunkData,
                               Size |-> size, wg |-> FALSE, node |-> node]}]
        ELSE LET branchCnt == BranchCnt(size, treeSize)
                 kid == [i \in 1..branchCnt |->
                           wellFormed(d, Append(node, i - 1), depth - 1, treeSize \div Branches,
                                      pos + (i - 1) * treeSize,
                                      SecSize(size, (i - 1) * treeSize, treeSize))]
                 chunk == PutUint64(size) \o Concat([i \in 1..branchCnt |-> kid[i].key])
             IN  [key |-> Hash(chunk),
                  chunks |-> {[Key |-> Hash(chunk), SData |-> chunk, Size |-> size,
                               wg |-> FALSE, node |-> node]}
                             \cup UNION {kid[i].chunks : i \in 1..branchCnt}]

WellFormed(d) ==
    LET dt == RootDepth(0, chunkSize, Len(d))
    IN  wellFormed(d, <<>>, dt[1], dt[2] \div Branches, 0, Len(d))

\* The content of length n whose bytes tell their position.
Ramp(n) == [i \in 1..n |-> i]

(***************************************************************************)
(* Specifications.                                                         *)
(***************************************************************************)

vars == <<splitVars, readVars>>

Init == SplitInit /\ ReadInit

\* Split, with a store that may stop receiving and the timer of SplitTimeout.
Next ==
    \/ Split
    \/ SplitStep
    \/ timerFires
    \/ storeStops

Spec == Init /\ [][Next]_vars

\* Split with a selector goroutine that is scheduled and a caller that receives from
\* the error channel.
SpecFair ==
    /\ Spec
    /\ WF_vars(selectRerrC)
    /\ WF_vars(selectTimeout)
    /\ WF_vars(sendErr)
    /\ WF_vars(closeErrC)

\* Split over a data source whose ReadAt can fail.
NextSrc ==
    \/ Next
    \/ \E p \in Paths : splitLeafReadErr(p)

SpecSrc == Init /\ [][NextSrc]_vars

\* Split with a store that may close the chunk channel.
NextClose ==
    \/ Next
    \/ storeCloses
    \/ \E p \in Paths : splitSendClosed(p)

SpecClose == Init /\ [][NextClose]_vars

\* Split given a persistence barrier, on a chunker that may not be initialised, with
\* a store that signals the chunks it has stored.
InitBarrier == SplitInitOf({TRUE}, BOOLEAN) /\ ReadInit

NextBarrier ==
    \/ Next
    \/ SplitUninitialised
    \/ \E c \in sent : storeDone(c)

SpecBarrier == InitBarrier /\ [][NextBarrier]_vars

\* Split of the contents whose bytes tell their position, of every length up to
\* ShapeMax.
InitShape == SplitInitOn({Ramp(n) : n \in 0..ShapeMax}, {FALSE}, {TRUE}) /\ ReadInit

SpecShape == InitShape /\ [][Next]_vars

\* The chunk sets of a store that holds a well-formed tree for d, or has lost one
\* chunk of it.
StoreContents(d) ==
    LET all == WellFormed(d).chunks
    IN  {all} \cup {all \ {c} : c \in all}

\* ReadAt on Join(root) over a store that delivers every request.
InitRead ==
    /\ ReadInit
    /\ data \in {Ramp(n) : n \in 0..MaxLen}
    /\ sent \in StoreContents(data)
    /\ rootKey = WellFormed(data).key
    /\ hasSwg = FALSE /\ swg = 0 /\ call = "idle" /\ task = <<>> /\ wg = 0
    /\ rerrC = "open" /\ closer = "wait" /\ selector = "select" /\ selErr = NoErr
    /\ timeout = "pending" /\ errC = [delivered |-> <<>>, closed |-> 0]
    /\ storeOn = TRUE /\ readErrs = {}
    /\ initialised = TRUE /\ chunkC = "open" /\ signalled = {}
    /\ ChunkerFixed

\* One ReadAt call, of any range of the content and one byte past it.
ReadCall ==
    \E off \in 0..Len(data) : \E b \in Buffers(Len(data) - off + 1) : ReadAt(1, b, off)

NextRead ==
    \/ ReadCall
    \/ ReadStep

SpecRead == InitRead /\ [][NextRead]_vars

\* The steps of the reader's own goroutines; the store's receives and deliveries
\* are not among them.
ReaderSteps ==
    \/ \E c \in Calls : readStart(c)
    \/ \E c \in Calls : \E q \in Paths : joinLeaf(c, q)
    \/ \E c \in Calls : \E q \in Paths : joinBranch(c, q)
    \/ \E c \in Calls : \E q \in Paths : joinMissing(c, q)
    \/ \E c \in Calls : \E q \in Paths : joinWait(c, q)
    \/ \E c \in Calls : readCloser(c)
    \/ \E c \in Calls : readSelect(c)
    \/ \E c \in Calls : readSelectClosed(c)
    \/ \E c, c2 \in Calls : \E q \in Paths : readSelectErr(c, c2, q)

\* ReadAt with goroutines that are scheduled, over a store that may never receive a
\* request or never deliver a chunk.
SpecReadFair == SpecRead /\ WF_vars(ReaderSteps)

\* The contents the reader is called on several times: up to the shortest one that
\* has a branch chunk.
SharedData == {Ramp(n) : n \in 0..(chunkSize + 1)}

\* The chunk sets of a store that has lost at most k chunks of d's well-formed tree.
StoreLost(d, k) ==
    LET all == WellFormed(d).chunks
    IN  {s \in SUBSET all : Cardinality(all \ s) <= k}

\* A reader on Join(root) of one of the shared contents, over a store that has lost
\* at most k chunks.
InitShared(k) ==
    /\ ReadInit
    /\ data \in SharedData
    /\ sent \in StoreLost(data, k)
    /\ rootKey = WellFormed(data).key
    /\ hasSwg = FALSE /\ swg = 0 /\ call = "idle" /\ task = <<>> /\ wg = 0
    /\ rerrC = "open" /\ closer = "wait" /\ selector = "select" /\ selErr = NoErr
    /\ timeout = "pending" /\ errC = [delivered |-> <<>>, closed |-> 0]
    /\ storeOn = TRUE /\ readErrs = {}
    /\ initialised = TRUE /\ chunkC = "open" /\ signalled = {}
    /\ ChunkerFixed

\* Call c reads the whole content into a buffer of its own.
ReadFull(c) == ReadAt(c, [isNil |-> FALSE, len |-> Len(data)], 0)

\* ReadAt calls running in parallel on one reader.
InitParallel == InitShared(1)

NextParallel ==
    \/ \E c \in Calls : ReadFull(c)
    \/ ReadStep

SpecParallel == InitParallel /\ [][NextParallel]_vars

\* The payloads a store can hold in place of payload p: cut to fewer than 8 bytes,
\* or, for a branch, cut so that the body no longer holds its last key.
Truncated(p, isBranch) ==
    {SubSeq(p, 1, 4)} \cup (IF isBranch THEN {SubSeq(p, 1, Len(p) - 1)} ELSE {})

\* The chunk sets of a store that holds d's well-formed tree with one payload
\* malformed.
StoreMalformed(d) ==
    LET all == WellFormed(d).chunks
    IN  UNION {{(all \ {c}) \cup {[c EXCEPT !.SData = bad]} :
                   bad \in Truncated(c.SData, ~SplitNode(Len(d), c.node).leaf)} :
               c \in all}

\* A reader over a store that is complete, has lost a chunk, or holds a malformed
\* payload.
InitMalformed ==
    /\ ReadInit
    /\ data \in SharedData
    /\ sent \in StoreLost(data, 1) \cup StoreMalformed(data)
    /\ rootKey = WellFormed(data).key
    /\ hasSwg = FALSE /\ swg = 0 /\ call = "idle" /\ task = <<>> /\ wg = 0
    /\ rerrC = "open" /\ closer = "wait" /\ selector = "select" /\ selErr = NoErr
    /\ timeout = "pending" /\ errC = [delivered |-> <<>>, closed |-> 0]
    /\ storeOn = TRUE /\ readErrs = {}
    /\ initialised = TRUE /\ chunkC = "open" /\ signalled = {}
    /\ ChunkerFixed

NextMalformed ==
    \/ ReadCall
    \/ ReadStep
    \/ \E c \in Calls : \E q \in Paths : joinShort(c, q)

SpecMalformed == InitMalformed /\ [][NextMalformed]_vars

\* The store gets back the chunks it had lost, after a ReadAt has failed.
storeRestored ==
    /\ rd[1].pc = "returned" /\ rd[1].err # NoErr /\ ~rpanic
    /\ sent # WellFormed(data).chunks
    /\ sent' = WellFormed(data).chunks
    /\ UNCHANGED <<data, hasSwg, swg, call, task, rootKey, wg, rerrC, closer, selector,
                   selErr, timeout, errC, storeOn, readErrs>>
    /\ UNCHANGED envVars
    /\ UNCHANGED readVars

\* The caller reads again, on the same reader, once the store holds every chunk.
ReadRetry ==
    /\ rd[1].pc = "returned"
    /\ sent = WellFormed(data).chunks
    /\ ReadFull(2)

\* A ReadAt that fails over a store that has lost chunks, then a second ReadAt on
\* the same reader over the restored store.
InitRetry == InitShared(2)

NextRetry ==
    \/ ReadFull(1)
    \/ ReadStep
    \/ storeRestored
    \/ ReadRetry

SpecRetry == InitRetry /\ [][NextRetry]_vars

\* ReadAt over a store that receives every request and delivers every chunk it is
\* asked for (empty when it does not hold it), all goroutines being scheduled.
SpecReadLive == SpecRead /\ WF_vars(ReadStep)

(***************************************************************************)
(* Configuration: Init on a chunker built with any fields, then the depth  *)
(* loop of Split on it.                                                    *)
(***************************************************************************)

\* Init, lines 252-269, called before Split.
TreeChunkerInit ==
    /\ depthLoop.pc = "idle" /\ initHist.inits < MaxInits
    /\ chunker' = InitFields(chunker)
    /\ initHist' = [initHist EXCEPT !.inits = @ + 1,
                                    !.first = IF initHist.inits = 0 THEN chunker' ELSE @]
    /\ initialised' = TRUE
    /\ UNCHANGED <<data, hasSwg, swg, call, task, rootKey, wg, rerrC, closer, selector,
                   selErr, timeout, errC, storeOn, sent, readErrs, chunkC, signalled,
                   depthLoop>>
    /\ UNCHANGED readVars

\* Split, lines 298-316: the panic on a chunkSize that is not positive, else the
\* root goroutine sets depth, treeSize and size.
depthLoopStart ==
    /\ depthLoop.pc = "idle"
    /\ depthLoop' = IF chunker.chunkSize <= 0
                    THEN [NoLoop EXCEPT !.pc = "panic"]
                    ELSE [pc |-> "loop", depth |-> 0, treeSize |-> chunker.chunkSize,
                          size |-> Len(data)]
    /\ UNCHANGED <<data, hasSwg, swg, call, task, rootKey, wg, rerrC, closer, selector,
                   selErr, timeout, errC, storeOn, sent, readErrs, initialised, chunkC,
                   signalled, chunker, initHist>>
    /\ UNCHANGED readVars

\* Split, lines 318-326: one test of treeSize < size, then either an iteration
\* (treeSize *= self.Branches, depth++) or the call of split.  Depths from
\* MaxDepth on are not told apart.
depthLoopStep ==
    /\ depthLoop.pc = "loop"
    /\ depthLoop' = IF depthLoop.treeSize < depthLoop.size
                    THEN [depthLoop EXCEPT
                            !.treeSize = @ * chunker.Branches,
                            !.depth = IF @ < MaxDepth THEN @ + 1 ELSE @]
                    ELSE [depthLoop EXCEPT !.pc = "split"]
    /\ UNCHANGED <<data, hasSwg, swg, call, task, rootKey, wg, rerrC, closer, selector,
                   selErr, timeout, errC, storeOn, sent, readErrs, initialised, chunkC,
                   signalled, chunker, initHist>>
    /\ UNCHANGED readVars

\* The fields a caller gives a chunker: left out, the default, or another value.
Configs ==
    {NewTreeChunker(b, h, jt, st) :
        b \in -1..(Branches + 1), h \in {0, hasherfunc, 7},
        jt \in {0, 1, joinTimeout}, st \in {0, 1}}

InitConfig ==
    /\ ReadInit
    /\ SplitIdle({Ramp(n) : n \in 0..MaxLen}, {FALSE}, {FALSE})
    /\ chunker \in Configs
    /\ initHist = [set |-> chunker, first |-> chunker, inits |-> 0]
    /\ depthLoop = NoLoop

NextConfig ==
    \/ TreeChunkerInit
    \/ depthLoopStart
    \/ depthLoopStep

SpecConfig == InitConfig /\ [][NextConfig]_vars

\* The root goroutine is scheduled.
SpecConfigLive == SpecConfig /\ WF_vars(depthLoopStep)

\* The caller reads once Split's error channel has closed cleanly.
ReadAfterSplit ==
    /\ errC.closed >= 1 /\ errC.delivered = <<>>
    /\ ReadCall

\* Split with a store that keeps receiving, then a read through Join(root) from the
\* chunks the store received.
NextRoundTrip ==
    \/ Split
    \/ SplitStep
    \/ timerFires
    \/ ReadAfterSplit
    \/ ReadStep

SpecRoundTrip == Init /\ [][NextRoundTrip]_vars

(***************************************************************************)
(* Claims.                                                                 *)
(***************************************************************************)

\* The error channel is closed and has delivered no value.
CleanClose == errC.closed >= 1 /\ errC.delivered = <<>>

\* A chunk as the store keeps it.
Stored(c) == [Key |-> c.Key, SData |-> c.SData, Size |-> c.Size, node |-> c.node]

\* The chunk sent for tree node q.
SentFor(q) == CHOOSE c \in sent : c.node = q

\* The children of node q that have a split goroutine.
Kids(q) == {k \in DOMAIN task : k # <<>> /\ Parent(k) = q}

\* C2: every branch chunk sent has payload size_le64 || k_0 || ... || k_{n-1}, k_i
\* the key of the chunk sent for its i-th child, and its key is the hash of that
\* payload.  (Stated as the claim states it; the code violates it.)
C2_BranchHoldsChildKeys ==
    \A c \in sent :
        ~task[c.node].leaf =>
            /\ c.Key = Hash(c.SData)
            /\ Len(c.SData) = 8 + Cardinality(Kids(c.node)) * HashSize
            /\ Slice(c.SData, 0, 8) = PutUint64(c.Size)
            /\ \A k \in Kids(c.node) :
                   /\ \E kc \in sent : kc.node = k
                   /\ Slice(c.SData, 8 + ChildIx(k) * HashSize, 8 + (ChildIx(k) + 1) * HashSize)
                        = SentFor(k).Key

\* C4: the root hash addresses the content: once Split has completed, no other
\* byte sequence of the same length has the root hash that was written.  (Stated as
\* the claim states it; the code violates it above chunkSize.)
C4_RootHashAddressesContent ==
    CleanClose =>
        \A d2 \in SeqsOfLen(Len(data)) : d2 # data => SplitSeq(d2).key # rootKey

\* C5: determinism: whatever the interleaving, every chunk sent is the chunk the
\* input determines for its node, the root-hash slot holds nothing but the root key
\* the input determines, and a completed Split has written that key and sent exactly
\* the keys the input determines.
C5_Deterministic ==
    LET ref == SplitSeq(data)
    IN  /\ \A c \in sent : Stored(c) \in ref.chunks
        /\ rootKey \in {ZeroHash, ref.key}
        /\ CleanClose =>
              /\ rootKey = ref.key
              /\ {c.Key : c \in sent} = {c.Key : c \in ref.chunks}

\* C5 witness: a Split of a multi-chunk input completed.
C5_Witness == CleanClose /\ Cardinality(sent) >= 3

\* C6: when the error channel is closed without a value, the root-hash slot holds
\* the key of the root chunk, the hash of the root payload.
C6_CleanCloseHasRootKey ==
    CleanClose =>
        /\ <<>> \in DOMAIN task
        /\ task[<<>>].chunk # <<>>
        /\ rootKey = Hash(task[<<>>].chunk)
        /\ \E c \in sent : c.node = <<>> /\ c.Key = rootKey

\* C6 witness: the error channel closed cleanly on a branch-rooted tree.
C6_Witness == CleanClose /\ Len(data) > chunkSize /\ rootKey # ZeroHash

\* C7: the error channel delivers at most one value, which is an error, is closed at
\* most once, delivers nothing when the split tasks completed and the select took
\* rerrC, and delivers nothing after it was closed.
C7_Inv ==
    /\ Len(errC.delivered) <= 1
    /\ errC.closed <= 1
    /\ \A i \in 1..Len(errC.delivered) : errC.delivered[i] # NoErr
    /\ (errC.closed = 1 /\ timeout # "taken") => errC.delivered = <<>>
    /\ selector = "done" <=> errC.closed = 1

C7_ErrorChannelOnce ==
    /\ []C7_Inv
    /\ [][errC.closed >= 1 => errC'.delivered = errC.delivered]_vars

\* C7 witness: a timeout error was delivered and the channel then closed.
C7_Witness == errC.closed = 1 /\ errC.delivered = <<SplitTimeOut>>

\* C8: when the error channel is closed without a value, every split goroutine of
\* the tree has sent its chunk, written its key and finished.
C8_CleanCloseAfterAllTasks ==
    CleanClose =>
        /\ DOMAIN task = {c.node : c \in SplitSeq(data).chunks}
        /\ \A q \in DOMAIN task :
              /\ task[q].pc = "done"
              /\ \E c \in sent : c.node = q /\ c.Key = task[q].hash
              /\ IF q = <<>> THEN rootKey = task[q].hash
                 ELSE task[Parent(q)].keys[ChildIx(q) + 1] = task[q].hash

\* C8 witness: a clean close on a tree of depth 2.
C8_Witness == CleanClose /\ \E q \in DOMAIN task : Len(q) = 2

\* C10: a failed data.ReadAt is reported on the error channel, and no chunk built
\* from the failed read is sent to the store.  (Stated as the claim states it; the
\* code ignores the error.)
C10_ReadErrorReported ==
    /\ (readErrs # {} /\ errC.closed >= 1) => errC.delivered # <<>>
    /\ \A c \in sent : c.node \notin readErrs

\* C1: round trip: reading [0, L) through Join(root) from a store that kept every
\* chunk of Split(data) yields data.  (Stated as the claim states it; the code
\* violates it above chunkSize.)
C1_RoundTrip ==
    (rd[1].pc = "returned" /\ ~rd[1].isNil /\ rd[1].off = 0 /\ rd[1].len = Len(data)) =>
        buf[1] = Bytes(data)

\* The store holds the whole well-formed tree of data.
StoreComplete == sent = WellFormed(data).chunks

\* C3: range read: over a store that holds a well-formed tree for data and delivers
\* every request, ReadAt with a buffer of length want at offset off,
\* 0 <= off <= off+want <= L, does not panic, fills the buffer with
\* data[off:off+want] and returns n = want with no error but end-of-stream.
C3_RangeRead ==
    (StoreComplete /\ ~rd[1].isNil /\ rd[1].off + rd[1].len <= Len(data)) =>
        /\ ~rpanic
        /\ rd[1].pc = "returned" =>
              /\ buf[1] = Bytes(Slice(data, rd[1].off, rd[1].off + rd[1].len))
              /\ rd[1].n = rd[1].len
              /\ rd[1].err \in {NoErr, EOF}

\* C3 witness: a read of the inner range [1, 4) of a five-byte content returned.
C3_Witness ==
    /\ StoreComplete /\ rd[1].pc = "returned" /\ Len(data) = 5 /\ rd[1].off = 1 /\ rd[1].len = 3
    /\ buf[1] = Bytes(<<2, 3, 4>>)

\* The split tasks can no longer complete: the store has stopped receiving and a
\* task still has its chunk to send.
SplitStuck ==
    /\ call = "split" /\ ~storeOn
    /\ \E q \in DOMAIN task : task[q].pc \in {"start", "wait", "send"}

C11_StoreCloseReported ==
    /\ call # "panic"
    /\ (chunkC = "closed" /\ errC.closed >= 1
            /\ \E q \in DOMAIN task : task[q].pc = "send")
         => errC.delivered # <<>>

\* C12: Split on a chunker that was never initialised panics at once: no split
\* goroutine exists, no chunk was sent, the root-hash slot is untouched and the
\* barrier counter is back at its value from before the call.
C12_UninitialisedIsFatal ==
    /\ (~initialised /\ call # "idle") =>
          /\ call = "panic"
          /\ task = <<>> /\ sent = {} /\ rootKey = ZeroHash
          /\ wg = 0 /\ errC = [delivered |-> <<>>, closed |-> 0]
          /\ swg = 0
    /\ call = "panic" => ~initialised

\* C12 witness: Split was called with a barrier on an uninitialised chunker.
C12_Witness == ~initialised /\ hasSwg /\ call = "panic" /\ Len(data) > chunkSize

\* C13: with a barrier, every chunk sent, leaf or branch, carries the barrier handle
\* and was counted before the send: the counter covers the chunks sent and not yet
\* signalled.  (Stated as the claim states it; leaf chunks are not registered.)
C13_EveryChunkRegistered ==
    hasSwg =>
        /\ \A c \in sent : c.wg
        /\ swg >= Cardinality(sent \ signalled)

\* Every chunk of the tree has been sent and signalled by the store.
AllSignalled ==
    /\ {c.node : c \in sent} = {c.node : c \in SplitSeq(data).chunks}
    /\ sent \subseteq signalled

\* C14: between the return of Split and the store's signal for the last chunk the
\* barrier counter is not zero.  (Stated as the claim states it; Split's own
\* Add(1)/Done() has netted to zero when it returns.)
C14_BarrierHoldsUntilStored ==
    (hasSwg /\ call = "split" /\ ~AllSignalled) => swg > 0

\* The store answered a fetch of call c, for the root or for a child, with an empty
\* payload.
FetchMissing(c) ==
    \/ rd[c].pc \in {"delivered", "returned"} /\ rd[c].SData = <<>>
    \/ \E q \in DOMAIN jtask[c] : jtask[c][q].pc \in {"missing", "senderr", "exit"}

\* C15: a ReadAt during which the store answered a fetch with an empty payload ends
\* with a not-found error, not nil or end-of-stream, and reports no bytes as read.
\* (Stated as the claim states it; the code returns len(b) and lets end-of-stream
\* replace the error.)
C15_MissingChunkIsNotFound ==
    (rd[1].pc = "returned" /\ FetchMissing(1)) =>
        /\ rd[1].err \in {NotFound, ChunkNotFound}
        /\ rd[1].n = 0

\* C16: a ReadAt whose root fetch comes back empty returns (0, notFound), starts no
\* join goroutine (issues no other fetch) and leaves the buffer as it was.
C16_RootNotFound ==
    (rd[1].pc = "returned" /\ rd[1].SData = <<>>) =>
        /\ rd[1].n = 0 /\ rd[1].err = NotFound
        /\ jtask[1] = <<>>
        /\ buf[1] = [i \in 1..rd[1].len |-> Stale]

\* C16 witness: a read into a two-byte buffer of a content whose root chunk the store
\* has lost returned.
C16_Witness ==
    /\ rd[1].pc = "returned" /\ rd[1].SData = <<>> /\ rd[1].len = 2
    /\ \E c \in WellFormed(data).chunks : c.node = <<>> /\ c \notin sent

\* C18: a ReadAt whose root request the store does not answer does not block for
\* ever.  (The weakest consequence of the claim; the code has no timer.)
C18_JoinTimeoutReturns ==
    (rd[1].pc \in {"request", "await"}) ~> (rd[1].pc \notin {"request", "await"})

\* C20: ReadAt returns end-of-stream exactly when the read succeeded and off + n is
\* the content's size, and a successful read that ends earlier returns nil.  (Stated
\* as the claim states it; a read that lost a chunk returns end-of-stream too.)
C20_EndOfStreamIffComplete ==
    (rd[1].pc = "returned" /\ ~rd[1].isNil) =>
        /\ rd[1].err = EOF <=> (~FetchMissing(1) /\ rd[1].off + rd[1].n = Len(data))
        /\ (~FetchMissing(1) /\ rd[1].off + rd[1].n < Len(data)) => rd[1].err = NoErr

\* C17: after a ReadAt that failed on missing chunks, a later ReadAt on the same
\* reader, made once the store holds every chunk, does not crash, and returns the
\* content with no error but end-of-stream.  (Stated as the claim states it; a
\* goroutine left over from the failed read can send its error to the later read.)
C17_ReaderNotPoisoned ==
    (rd[2].pc # "idle" /\ rd[1].err \in {NotFound, ChunkNotFound, EOF} /\ FetchMissing(1)) =>
        /\ ~rpanic
        /\ rd[2].pc = "returned" =>
              /\ buf[2] = Bytes(data)
              /\ rd[2].n = Len(data)
              /\ rd[2].err \in {NoErr, EOF}

\* C19: ReadAt calls running in parallel on one reader over a complete store each
\* return what they return when run one after another: the whole content in their
\* own buffer, n = L and end-of-stream; none crashes.  (Stated as the claim states
\* it; the calls share errC.)
C19_ParallelAsSequential ==
    sent = WellFormed(data).chunks =>
        /\ ~rpanic
        /\ \A c \in Calls :
              rd[c].pc = "returned" =>
                  /\ buf[c] = Bytes(data)
                  /\ rd[c].n = Len(data)
                  /\ rd[c].err = EOF

(***************************************************************************)
(* The shape of the tree Split builds.                                     *)
(***************************************************************************)

RECURSIVE Pow(_, _)
Pow(b, e) == IF e = 0 THEN 1 ELSE b * Pow(b, e - 1)

\* The sum of the Size fields of the chunks sent for the nodes of S.
RECURSIVE SizeSum(_)
SizeSum(S) ==
    IF S = {} THEN 0
    ELSE LET k == CHOOSE k \in S : TRUE IN SentFor(k).Size + SizeSum(S \ {k})

\* The nodes below q that have a split goroutine.
Descendants(q) == {k \in DOMAIN task : Len(k) > Len(q) /\ SubSeq(k, 1, Len(q)) = q}

\* C22: every leaf chunk sent has payload length size + 8, the prefix size_le64, the
\* covered slice of the data as its body, and size <= chunkSize.
C22_LeafChunkShape ==
    \A c \in sent :
        task[c.node].leaf =>
            /\ c.Size = task[c.node].size
            /\ Len(c.SData) = c.Size + 8
            /\ Slice(c.SData, 0, 8) = PutUint64(c.Size)
            /\ Slice(c.SData, 8, Len(c.SData))
                 = Bytes(Slice(data, task[c.node].pos, task[c.node].pos + c.Size))
            /\ c.Size <= chunkSize

\* C22 witness: the last leaf of the longest content was sent, full and not at the
\* start of the data.
C22_Witness ==
    \E c \in sent : /\ task[c.node].leaf /\ c.Size = chunkSize
                     /\ task[c.node].pos = ShapeMax - chunkSize

\* C23: every branch chunk sent has n children, 1 <= n <= Branches, a body of n
\* keys, and a size field that is the sum of the sizes of its children's chunks.
C23_BranchChunkShape ==
    \A c \in sent :
        ~task[c.node].leaf =>
            LET n == Cardinality(Kids(c.node))
            IN  /\ n >= 1 /\ n <= Branches
                /\ Len(c.SData) = 8 + n * HashSize
                /\ \A k \in Kids(c.node) : \E kc \in sent : kc.node = k
                /\ Uint64(c.SData) = SizeSum(Kids(c.node))
                /\ c.Size = Uint64(c.SData)
                /\ c.Size = Len(data) \/ c.node # <<>>

\* C23 witness: the root chunk of a content with a short last child was sent.
C23_Witness ==
    \E c \in sent : c.node = <<>> /\ ~task[<<>>].leaf /\ c.Size = ShapeMax - 1

\* C24: the tree is left-full: the children of a branch cover its range one after
\* the other, each but the last exactly the child span chunkSize * Branches^(d-1),
\* the last one the remainder, which is in (0, span].
C24_LeftFull ==
    \A q \in DOMAIN task :
        (task[q].pc # "start" /\ ~task[q].leaf) =>
            LET t == task[q]
                n == Len(t.keys)
                step == t.treeSize
            IN  /\ n >= 1
                /\ step = chunkSize * Pow(Branches, t.depth - 1)
                /\ \A i \in 0..(n - 1) :
                      /\ Append(q, i) \in DOMAIN task
                      /\ task[Append(q, i)].pos = t.pos + i * step
                      /\ i < n - 1 => task[Append(q, i)].size = step
                      /\ i = n - 1 =>
                            /\ task[Append(q, i)].size > 0
                            /\ task[Append(q, i)].size <= step
                            /\ task[Append(q, i)].pos + task[Append(q, i)].size
                                 = t.pos + t.size

\* C24 witness: a tree of two levels of branches with a short last child is built.
C24_Witness ==
    /\ Len(data) = ShapeMax - 1 /\ CleanClose
    /\ \E q \in DOMAIN task : Len(q) = 2 /\ task[q].size < chunkSize

\* C25: for an input no longer than chunkSize, the empty one included, the only
\* goroutine is the root's, the only chunk sent is the leaf size_le64 || data, and
\* its key is what is written as the root hash.
C25_SmallInputOneLeaf ==
    Len(data) <= chunkSize =>
        LET payload == PutUint64(Len(data)) \o Bytes(data)
        IN  /\ DOMAIN task \subseteq {<<>>}
            /\ \A c \in sent : /\ c.node = <<>> /\ task[<<>>].leaf
                                 /\ c.SData = payload /\ c.Key = Hash(payload)
            /\ rootKey \in {ZeroHash, Hash(payload)}
            /\ CleanClose => (Cardinality(sent) = 1 /\ rootKey = Hash(payload))

\* C25 witness: Split of the empty content completed with one chunk of 8 bytes.
C25_Witness ==
    /\ Len(data) = 0 /\ CleanClose
    /\ \E c \in sent : Len(c.SData) = 8

\* C27: for a content of chunkSize * Branches^k bytes, k >= 1, every branch has
\* Branches children and lies above level k, and every leaf has chunkSize bytes and
\* lies at level k; a completed Split has built Branches^k leaves.
C27_PowerIsBalanced ==
    \A k \in 1..RootDepth(0, chunkSize, MaxSize)[1] :
        Len(data) = chunkSize * Pow(Branches, k) =>
            /\ \A q \in DOMAIN task :
                  task[q].pc # "start" =>
                      IF task[q].leaf
                      THEN task[q].size = chunkSize /\ Len(q) = k
                      ELSE Len(task[q].keys) = Branches /\ Len(q) < k
            /\ CleanClose =>
                  Cardinality({q \in DOMAIN task : task[q].leaf}) = Pow(Branches, k)

\* C27 witness: Split of the content of chunkSize * Branches^2 bytes completed.
C27_Witness == Len(data) = chunkSize * Pow(Branches, 2) /\ CleanClose

\* Every goroutine below q exists, has sent its chunk and has finished.
SubtreeDone(q) ==
    /\ \A b \in {q} \cup Descendants(q) :
          (task[b].pc # "start" /\ ~task[b].leaf) =>
              \A i \in 0..(Len(task[b].keys) - 1) : Append(b, i) \in DOMAIN task
    /\ \A k \in Descendants(q) :
          task[k].pc = "done" /\ \E kc \in sent : kc.node = k

C28_Inv ==
    /\ \A c \in sent : SubtreeDone(c.node)
    /\ rootKey # ZeroHash =>
          /\ SubtreeDone(<<>>)
          /\ \E c \in sent : c.node = <<>>

\* C28: chunks are sent bottom-up: a chunk is sent only when every goroutine below
\* its node has sent its chunk and finished; nothing is sent after the root chunk;
\* the root-hash slot is written only after all that.
C28_BottomUp ==
    /\ []C28_Inv
    /\ [][(\E c \in sent : c.node = <<>>) => sent' = sent]_vars

\* C28 witness: the root hash of a tree of two levels of branches was written.
C28_Witness ==
    /\ rootKey # ZeroHash /\ Len(data) > chunkSize * Branches
    /\ \E q \in DOMAIN task : Len(q) = 2

\* C30: every branch chunk sent has a size field above chunkSize and more than one
\* child.  (Stated as the claim states it; a last child of exactly chunkSize bytes
\* two levels above the leaves becomes a branch with one child.)
C30_BranchAboveChunkSize ==
    \A c \in sent :
        ~task[c.node].leaf =>
            /\ c.Size > chunkSize
            /\ Len(task[c.node].keys) >= 2

\* The smallest d >= 0 with chunkSize * Branches^d >= size.
MinDepth(size) ==
    CHOOSE d \in 0..size :
        /\ chunkSize * Pow(Branches, d) >= size
        /\ \A e \in 0..(d - 1) : chunkSize * Pow(Branches, e) < size

C29_JoinDescendsAsSplit ==
    \A q \in DOMAIN jtask[1] :
        (jtask[1][q].pc = "start" /\ Len(jtask[1][q].SData) >= 8) =>
            LET t == jtask[1][q]
                size == Uint64(t.SData)
                d == Descend(t.depth, t.treeSize, size)
                sp == SplitNode(Len(data), q)
            IN  /\ size = sp.size
                /\ (d[1] = 0) = sp.leaf
                /\ d[1] > 0 => d[2] = sp.treeSize

\* C29 witness: the reader is delivered a node two levels down which it reaches by
\* skipping a depth, and one where it does not.
C29_Witness ==
    /\ \E q \in DOMAIN jtask[1] :
          /\ jtask[1][q].pc = "start" /\ Len(q) = 1
          /\ Descend(jtask[1][q].depth, jtask[1][q].treeSize, Uint64(jtask[1][q].SData))[1]
               < jtask[1][q].depth
    /\ \E q \in DOMAIN jtask[1] : Len(q) = 2

\* C21: over a store holding a malformed payload no goroutine of the reader
\* crashes, and a read of the whole content ends with an error.  (Stated as the
\* claim states it; the reader slices the payload unchecked.)
C21_MalformedIsAnError ==
    sent \in StoreMalformed(data) =>
        /\ ~rpanic
        /\ (rd[1].pc = "returned" /\ ~rd[1].isNil /\ rd[1].off = 0
               /\ rd[1].len = Len(data)) => rd[1].err \notin {NoErr, EOF}

\* Call c has sent its fetch request for the root key (line 473).
RootFetched(c) == rd[c].pc \notin {"idle", "request"}

\* C32: once a ReadAt has learned the content's size from the root chunk, a later
\* ReadAt on the same reader sends no fetch for the root key.  (Stated as the claim
\* states it; every ReadAt fetches the root.)
C32_RootFetchedOnce ==
    (rd[1].pc = "returned" /\ Len(rd[1].SData) >= 8) => ~RootFetched(2)

\* C34: when a ReadAt has returned because a chunk was missing, every goroutine it
\* started comes to an end.  (Stated as the claim states it; quitC is never closed.)
C34_AbortedReadTerminates ==
    (rd[1].pc = "returned" /\ FetchMissing(1) /\ jtask[1] # <<>>)
        ~> (\A q \in DOMAIN jtask[1] : jtask[1][q].pc \in {"done", "exit"})

\* C35: after the error channel has delivered the timeout error and closed, the
\* root-hash slot is not written.  (Stated as the claim states it; the root
\* goroutine goes on to copy its hash into the slot.)
C35_NoWriteAfterTimeout ==
    [][(errC.closed >= 1 /\ errC.delivered = <<SplitTimeOut>>) => rootKey' = rootKey]_vars

\* C39: over a complete store a ReadAt returns n = min(len(b), size - off), with
\* end-of-stream when the buffer reaches past the content, and does not crash.
\* (Stated as the claim states it; the code returns len(b), or panics in a leaf.)
C39_ShortCount ==
    (StoreComplete /\ ~rd[1].isNil) =>
        /\ ~rpanic
        /\ rd[1].pc = "returned" =>
              /\ rd[1].n = Want(rd[1].len, rd[1].off, Len(data))
              /\ rd[1].off + rd[1].len > Len(data) => rd[1].err = EOF

\* C40: once a ReadAt has returned, its buffer is not written any more.  (Stated as
\* the claim states it; after a return on an error the other goroutines go on.)
C40_NoWriteAfterReturn ==
    [][rd[1].pc = "returned" => buf'[1] = buf[1]]_vars

\* The chunk of node q in the well-formed tree of the content.
ChunkOf(q) == CHOOSE c \in WellFormed(data).chunks : c.node = q

\* Node q of the content's tree covers a byte of [off, eoff).
Intersects(q, off, eoff) ==
    /\ \E c \in WellFormed(data).chunks : c.node = q
    /\ SplitPos(Len(data), q) < eoff
    /\ SplitPos(Len(data), q) + ChunkOf(q).Size > off

\* C33: over a complete store holding a branch-rooted tree, a ReadAt of a non-empty
\* range [off, off+want) inside the content starts a fetch only for non-root nodes
\* whose section meets the range, each with the key in slot i of its parent's
\* payload and delivered that node's chunk, and when it has returned the nodes
\* fetched are exactly the non-root nodes whose section meets the range.
C33_FetchesExactlyTheRange ==
    (/\ StoreComplete /\ ~rd[1].isNil /\ Len(data) > chunkSize
     /\ rd[1].len > 0 /\ rd[1].off + rd[1].len <= Len(data)) =>
        LET off == rd[1].off
            eoff == rd[1].off + rd[1].len
            started == DOMAIN jtask[1] \ {<<>>}
            fetched == {q \in started : jtask[1][q].pc # "request"}
        IN  /\ ~rpanic
            /\ \A q \in started :
                  /\ Intersects(q, off, eoff)
                  /\ jtask[1][q].j = ChildIx(q)
            /\ \A q \in fetched :
                  /\ ChildKey(jtask[1][Parent(q)].SData, jtask[1][q].j) = ChunkOf(q).Key
                  /\ jtask[1][q].pc # "await" => jtask[1][q].SData = ChunkOf(q).SData
            /\ rd[1].pc = "returned" =>
                  fetched = {q \in Paths \ {<<>>} : Intersects(q, off, eoff)}

\* C33 witness: a read of [1, 3) of a five-byte content has returned after fetching
\* the first branch and its two leaves, and not the other branch.
C33_Witness ==
    /\ StoreComplete /\ rd[1].pc = "returned" /\ Len(data) = 5
    /\ rd[1].off = 1 /\ rd[1].len = 2
    /\ DOMAIN jtask[1] = {<<>>, <<0>>, <<0, 0>>, <<0, 1>>}

\* Neither of two nodes is above the other.
Apart(p, q) ==
    /\ p # q
    /\ ~(Len(p) <= Len(q) /\ SubSeq(q, 1, Len(p)) = p)
    /\ ~(Len(q) <= Len(p) /\ SubSeq(p, 1, Len(q)) = q)

\* C36: over a complete store, the slices of two tasks of one ReadAt neither of
\* which is above the other are disjoint, a child's slice lies within its
\* parent's, and when the ReadAt has returned the indices written are exactly
\* [0, want).
C36_BufferPartitioned ==
    (StoreComplete /\ ~rd[1].isNil /\ ~rpanic) =>
        /\ \A p, q \in DOMAIN jtask[1] :
              Apart(p, q) =>
                 \/ jtask[1][p].b0 + jtask[1][p].len <= jtask[1][q].b0
                 \/ jtask[1][q].b0 + jtask[1][q].len <= jtask[1][p].b0
        /\ \A q \in DOMAIN jtask[1] \ {<<>>} :
              /\ jtask[1][Parent(q)].b0 <= jtask[1][q].b0
              /\ jtask[1][q].b0 + jtask[1][q].len
                    <= jtask[1][Parent(q)].b0 + jtask[1][Parent(q)].len
        /\ rd[1].pc = "returned" =>
              {i \in 1..Len(buf[1]) : buf[1][i] # Stale}
                 = 1..Want(rd[1].len, rd[1].off, Len(data))

\* C36 witness: a read of a whole five-byte content has returned, its three leaves
\* having written [0, 2), [2, 4) and [4, 5).
C36_Witness ==
    /\ StoreComplete /\ rd[1].pc = "returned" /\ Len(data) = 5
    /\ rd[1].off = 0 /\ rd[1].len = 5
    /\ {<<0, 0>>, <<0, 1>>, <<1>>} \subseteq DOMAIN jtask[1]
    /\ jtask[1][<<0, 1>>].b0 = 2 /\ jtask[1][<<1>>].b0 = 4
    /\ \A i \in 1..5 : buf[1][i] # Stale

\* C37: a split goroutine is past its send exactly when the store has received
\* its chunk, the store holds one chunk per node at most, and when the error
\* channel has closed cleanly it holds the chunk of every node of the tree.
C37_EveryChunkSentOnce ==
    /\ \A q \in DOMAIN task :
          (task[q].pc \in {"copykey", "done"}) <=> (\E c \in sent : c.node = q)
    /\ \A c1, c2 \in sent : c1.node = c2.node => c1 = c2
    /\ \A c \in sent : c.node \in DOMAIN task /\ c.SData = task[c.node].chunk
    /\ CleanClose => {c.node : c \in sent} = {c.node : c \in WellFormed(data).chunks}

\* C37 witness: Split of a five-byte content has closed cleanly with the five chunks
\* of its tree received.
C37_Witness == CleanClose /\ Len(data) = 5 /\ Cardinality(sent) = 5

\* C31: no depth loop is run on a chunker with fewer than two branches, and every
\* depth loop that is started comes to its call of split.  (Stated as the claim
\* states it; Init and Split accept Branches = 1.)
C31_BranchesValidated ==
    /\ [](depthLoop.pc \in {"loop", "split"} => chunker.Branches >= 2)
    /\ (depthLoop.pc = "loop") ~> (depthLoop.pc = "split")

\* The default Init gives a field that was left zero.
DefaultOf(f) ==
    CASE f = "HashFunc" -> hasherfunc
      [] f = "Branches" -> defaultBranches
      [] f = "JoinTimeout" -> joinTimeout
      [] f = "SplitTimeout" -> splitTimeout

\* C38: once Init has run, each of HashFunc, Branches, JoinTimeout and SplitTimeout
\* is the default if the caller left it zero and the caller's value otherwise,
\* hashSize is the digest size of HashFunc, chunkSize = hashSize * Branches, and
\* every later Init leaves all fields as the first left them.
C38_InitIdempotent ==
    initHist.inits >= 1 =>
        /\ \A f \in {"HashFunc", "Branches", "JoinTimeout", "SplitTimeout"} :
              chunker[f] = IF initHist.set[f] = 0 THEN DefaultOf(f) ELSE initHist.set[f]
        /\ chunker.hashSize = HashFuncSize(chunker.HashFunc)
        /\ KeySize = chunker.hashSize
        /\ chunker.chunkSize = chunker.hashSize * chunker.Branches
        /\ chunker = initHist.first
        /\ InitFields(chunker) = chunker

\* C38 witness: Init has run twice on a chunker built with three branches, SHA512
\* and no timeouts.
C38_Witness ==
    /\ initHist.inits = 2
    /\ initHist.set = NewTreeChunker(3, 7, 0, 0)
    /\ chunker = [Branches |-> 3, HashFunc |-> 7, JoinTimeout |-> joinTimeout,
                  SplitTimeout |-> splitTimeout, hashSize |-> 2, chunkSize |-> 6]


=============================================================================
